---- MODULE Spec2Model ----
(***************************************************************************)
(* ClaudLE: the in-memory rate limiter of src/middleware.ts, the guess     *)
(* evaluator (checkGuess, getKeyboardState) of src/lib/device-analytics.ts *)
(* the game session of src/components/ClaudLE.tsx and the POST handlers   *)
(* of src/app/api/claude.                                                  *)
(*                                                                         *)
(* Time is the millisecond clock of Date.now().  One call of the           *)
(* middleware is synchronous, so the clock reads it makes (new Date() in   *)
(* getRateLimitKey, Date.now() in checkRateLimit and in the sweep) are     *)
(* modelled as one instant, the value of the variable now.                 *)
(***************************************************************************)
EXTENDS Integers, Sequences, FiniteSets, TLC

VARIABLES
    now,             \* the clock, in ms
    rateLimitStore,  \* Map<string, {count, resetTime}>, a function on its keys
    last,            \* what the last middleware call saw and answered
    traffic,         \* the <<ip, path>> pairs that send requests in this run
    instants,        \* the clock values at which requests arrive in this run
    calls,           \* history: calls of checkRateLimit per <<ip, path, window>>
    opened,          \* history: the record created last for each <<ip, path>>
    watchFrom,       \* history: start of the watched interval, -1 when none
    watched,         \* history: requests admitted in the watched interval
    rejectedAt,      \* history: for each <<ip, path>> whose latest request was
                     \* rejected, the instant of that request
    plainStore,      \* the store of a limiter given the same calls and no sweep
    objects,         \* the record objects created by rateLimitStore.set(key, {...})
                     \* in the runs with overlapping calls, in order of creation
    slot,            \* the index in objects of the record under the key, 0 for none
    inFlight,        \* calls that have read the record and not yet written: how
                     \* many hold each reference (0: no record was found)
    arrived,         \* history: calls of checkRateLimit that have started
    admitted,        \* history: calls that returned allowed = true
    raced,           \* history: admitted or pending calls that ran while another
                     \* call was between its read and its write
    lonely,          \* history: 1 while the only pending call has met no other
    env,             \* process.env of the server: the variables that are set
    llmCalls,        \* history: calls of claudeClient.messages.create caused by
                     \* the requests of each <<ip, path, window>>
    served,          \* what the route handler did with the last request
    targetWord,      \* the secret word the guesses are evaluated against
    history,         \* GuessResult[]: the results of the guesses so far
    submitted,       \* history: the guesses handed to checkGuess, in order
    keyboardState,   \* getKeyboardState(history)
    gameStarted,     \* ClaudLE: the game screen is shown
    guesses,         \* ClaudLE: the submitted guesses of the game
    currentGuess,    \* ClaudLE: the content of the input field
    gameState,       \* ClaudLE: 'playing', 'won' or 'lost'
    useAudioStart,   \* ClaudLE: the setting Start with "AUDIO"
    isLoadingWord,   \* ClaudLE: startNewGame is awaiting getNewWord()
    audioStart,      \* useAudioStart as the pending startNewGame read it
    usedWords,       \* ClaudLE: the targets of the games of this theme so far
    stats            \* ClaudLE: the statistics (also kept in localStorage)

raceVars == <<objects, slot, inFlight, arrived, admitted, raced, lonely>>
limiterVars ==
    <<now, rateLimitStore, last, traffic, instants, calls, opened, watchFrom, watched,
      rejectedAt, plainStore, env, llmCalls, served, raceVars>>
handlerVars == <<env, llmCalls, served>>
evaluatorVars == <<targetWord, history, keyboardState, submitted>>
gameVars ==
    <<gameStarted, guesses, currentGuess, gameState, useAudioStart, isLoadingWord,
      audioStart, usedWords, stats>>
vars == <<limiterVars, evaluatorVars, gameVars>>

(***************************************************************************)
(* Bounds of the model.                                                    *)
(***************************************************************************)
\* number of consecutive windows the arrival instants span
MaxWindows == 2
\* calls of an unconfigured route that are told apart (later ones count as this)
MaxCounted == 3
\* guesses in a history given to getKeyboardState
MaxHistory == 2

(***************************************************************************)
(* src/middleware.ts                                                       *)
(***************************************************************************)
RATE_LIMITS ==
    "/api/claude/generate-word" :> [maxRequests |-> 5, windowMinutes |-> 60 * 24] @@
    "/api/claude/get-hint" :> [maxRequests |-> 30, windowMinutes |-> 60] @@
    "/api/claude/coaching" :> [maxRequests |-> 100, windowMinutes |-> 60] @@
    "/api/claude/game-over" :> [maxRequests |-> 10, windowMinutes |-> 60]

\* RATE_LIMITS[path] is defined (the code's `!config` is its negation)
HasConfig(path) == path \in DOMAIN RATE_LIMITS

\* config.windowMinutes * 60 * 1000
WindowMs(path) == RATE_LIMITS[path].windowMinutes * 60 * 1000

\* the key without the window: one record per client and route, reset by the
\* test now > resetTime alone
getRateLimitKey_noWindow(ip, path, t) ==
    IF ~HasConfig(path)
    THEN ip \o "-" \o path \o "-" \o ToString(t)
    ELSE ip \o "-" \o path

\* the key with the ip left out: all clients of a route share one counter
getRateLimitKey_noIp(ip, path, t) ==
    IF ~HasConfig(path)
    THEN path \o "-" \o ToString(t)
    ELSE path \o "-" \o ToString((t \div WindowMs(path)) * WindowMs(path))

\* the key of the unconfigured branch used for every route: one key per instant
getRateLimitKey_perInstant(ip, path, t) ==
    ip \o "-" \o path \o "-" \o ToString(t)

getRateLimitKey(ip, path, t) ==
    IF ~HasConfig(path)
    THEN ip \o "-" \o path \o "-" \o ToString(t)
    ELSE LET windowMs == WindowMs(path)
             windowStart == (t \div windowMs) * windowMs
         IN  ip \o "-" \o path \o "-" \o ToString(windowStart)

\* Map.set(key, value)
MapSet(store, key, value) ==
    [k \in DOMAIN store \cup {key} |-> IF k = key THEN value ELSE store[k]]

\* `>` for `>=` in the ceiling test: one request too many is admitted
checkRateLimit_offByOne(store, ip, path, t) ==
    IF ~HasConfig(path)
    THEN [allowed |-> TRUE, remaining |-> 999, store |-> store]
    ELSE LET config == RATE_LIMITS[path]
             key == getRateLimitKey(ip, path, t)
         IN  IF key \notin DOMAIN store \/ t > store[key].resetTime
             THEN [allowed |-> TRUE, remaining |-> config.maxRequests - 1,
                   store |-> MapSet(store, key,
                                    [count |-> 1, resetTime |-> t + WindowMs(path)])]
             ELSE IF store[key].count > config.maxRequests
             THEN [allowed |-> FALSE, remaining |-> 0, store |-> store]
             ELSE [allowed |-> TRUE,
                   remaining |-> config.maxRequests - (store[key].count + 1),
                   store |-> MapSet(store, key,
                                    [store[key] EXCEPT !.count = @ + 1])]

\* rejected requests are counted too
checkRateLimit_countsRejected(store, ip, path, t) ==
    IF ~HasConfig(path)
    THEN [allowed |-> TRUE, remaining |-> 999, store |-> store]
    ELSE LET config == RATE_LIMITS[path]
             key == getRateLimitKey(ip, path, t)
         IN  IF key \notin DOMAIN store \/ t > store[key].resetTime
             THEN [allowed |-> TRUE, remaining |-> config.maxRequests - 1,
                   store |-> MapSet(store, key,
                                    [count |-> 1, resetTime |-> t + WindowMs(path)])]
             ELSE IF store[key].count >= config.maxRequests
             THEN [allowed |-> FALSE, remaining |-> 0,
                   store |-> MapSet(store, key,
                                    [store[key] EXCEPT !.count = @ + 1])]
             ELSE [allowed |-> TRUE,
                   remaining |-> config.maxRequests - (store[key].count + 1),
                   store |-> MapSet(store, key,
                                    [store[key] EXCEPT !.count = @ + 1])]

\* the unconfigured route is counted under its per-instant key
checkRateLimit_writesUnconfigured(store, ip, path, t) ==
    IF ~HasConfig(path)
    THEN [allowed |-> TRUE, remaining |-> 999,
          store |-> MapSet(store, getRateLimitKey(ip, path, t),
                           [count |-> 1, resetTime |-> t])]
    ELSE LET config == RATE_LIMITS[path]
             key == getRateLimitKey(ip, path, t)
         IN  IF key \notin DOMAIN store \/ t > store[key].resetTime
             THEN [allowed |-> TRUE, remaining |-> config.maxRequests - 1,
                   store |-> MapSet(store, key,
                                    [count |-> 1, resetTime |-> t + WindowMs(path)])]
             ELSE IF store[key].count >= config.maxRequests
             THEN [allowed |-> FALSE, remaining |-> 0, store |-> store]
             ELSE [allowed |-> TRUE,
                   remaining |-> config.maxRequests - (store[key].count + 1),
                   store |-> MapSet(store, key,
                                    [store[key] EXCEPT !.count = @ + 1])]

\* the first request of a window is not counted in `remaining`
checkRateLimit_freshFull(store, ip, path, t) ==
    IF ~HasConfig(path)
    THEN [allowed |-> TRUE, remaining |-> 999, store |-> store]
    ELSE LET config == RATE_LIMITS[path]
             key == getRateLimitKey(ip, path, t)
         IN  IF key \notin DOMAIN store \/ t > store[key].resetTime
             THEN [allowed |-> TRUE, remaining |-> config.maxRequests,
                   store |-> MapSet(store, key,
                                    [count |-> 1, resetTime |-> t + WindowMs(path)])]
             ELSE IF store[key].count >= config.maxRequests
             THEN [allowed |-> FALSE, remaining |-> 0, store |-> store]
             ELSE [allowed |-> TRUE,
                   remaining |-> config.maxRequests - (store[key].count + 1),
                   store |-> MapSet(store, key,
                                    [store[key] EXCEPT !.count = @ + 1])]

\* checkRateLimit(ip, path) at clock t on the store: its result and the store
\* it leaves
checkRateLimit(store, ip, path, t) ==
    IF ~HasConfig(path)
    THEN [allowed |-> TRUE, remaining |-> 999, store |-> store]
    ELSE LET config == RATE_LIMITS[path]
             key == getRateLimitKey(ip, path, t)
         IN  IF key \notin DOMAIN store \/ t > store[key].resetTime
             THEN \* new window or expired
                  [allowed |-> TRUE, remaining |-> config.maxRequests - 1,
                   store |-> MapSet(store, key,
                                    [count |-> 1, resetTime |-> t + WindowMs(path)])]
             ELSE IF store[key].count >= config.maxRequests
             THEN [allowed |-> FALSE, remaining |-> 0, store |-> store]
             ELSE \* increment count
                  [allowed |-> TRUE,
                   remaining |-> config.maxRequests - (store[key].count + 1),
                   store |-> MapSet(store, key,
                                    [store[key] EXCEPT !.count = @ + 1])]

\* `<` for `>`: the records still running are deleted, the stale ones kept
Sweep_inverted(store, t) ==
    [k \in {k \in DOMAIN store : ~(t < store[k].resetTime)} |-> store[k]]

\* the cleanup loop of middleware: delete every record whose resetTime passed
Sweep(store, t) ==
    [k \in {k \in DOMAIN store : ~(t > store[k].resetTime)} |-> store[k]]

\* request.nextUrl.pathname.startsWith('/api/claude')
IsClaudeApi(path) ==
    Len(path) >= Len("/api/claude") /\ SubSeq(path, 1, Len("/api/claude")) = "/api/claude"

SecurityHeaders ==
    "X-Frame-Options" :> "DENY" @@
    "X-Content-Type-Options" :> "nosniff" @@
    "Referrer-Policy" :> "origin-when-cross-origin" @@
    "X-XSS-Protection" :> "1; mode=block"

\* Retry-After is one hour whatever the window of the route
TooManyRequests_hour(path) ==
    [status |-> 429, passed |-> FALSE, retryAfter |-> 3600,
     headers |-> "Content-Type" :> "application/json" @@
                 "Retry-After" :> ToString(3600) @@
                 "X-RateLimit-Remaining" :> "0"]

\* the 429 response of a rejected request
TooManyRequests(path) ==
    LET retryAfter == IF HasConfig(path) THEN RATE_LIMITS[path].windowMinutes * 60
                      ELSE 3600
    IN  [status |-> 429, passed |-> FALSE, retryAfter |-> retryAfter,
         headers |-> "Content-Type" :> "application/json" @@
                     "Retry-After" :> ToString(retryAfter) @@
                     "X-RateLimit-Remaining" :> "0"]

\* NextResponse.next() with the headers the middleware set on it
PassedOn(api, remaining) ==
    [status |-> 200, passed |-> TRUE, retryAfter |-> 0,
     headers |-> IF api
                 THEN SecurityHeaders @@ "X-RateLimit-Remaining" :> ToString(remaining)
                 ELSE SecurityHeaders]

(***************************************************************************)
(* The guess evaluator: checkGuess, getKeyboardState, isValidWord          *)
(* A word is the sequence of its letters, as guess.split('') gives it.     *)
(***************************************************************************)
\* /^[A-Z]{5}$/: the length of a valid word
WordLength == 5

\* Array.prototype.indexOf: the first 0-based index of x, -1 when absent
IndexOf(arr, x) ==
    IF \E i \in 1..Len(arr) : arr[i] = x
    THEN (CHOOSE i \in 1..Len(arr) :
             arr[i] = x /\ \A j \in 1..(i - 1) : arr[j] # x) - 1
    ELSE -1

\* splice(start) without its count: everything from start on is removed
Splice_toEnd(arr, start) ==
    LET from == IF start < 0
                THEN (IF Len(arr) + start < 0 THEN 0 ELSE Len(arr) + start)
                ELSE (IF start > Len(arr) THEN Len(arr) ELSE start)
    IN  SubSeq(arr, 1, from)

\* Array.prototype.splice(start, 1): a negative start counts from the end
Splice(arr, start) ==
    LET from == IF start < 0
                THEN (IF Len(arr) + start < 0 THEN 0 ELSE Len(arr) + start)
                ELSE (IF start > Len(arr) THEN Len(arr) ELSE start)
    IN  [i \in 1..(IF from < Len(arr) THEN Len(arr) - 1 ELSE Len(arr)) |->
            IF i <= from THEN arr[i] ELSE arr[i + 1]]

\* the letter is compared with the target letter one place to the right
ExactMatch_shifted(guessLetters, targetLetters, i) ==
    guessLetters[i] = targetLetters[(i % Len(targetLetters)) + 1]

\* guessLetters[i] === targetLetters[i]
ExactMatch(guessLetters, targetLetters, i) ==
    guessLetters[i] = targetLetters[i]

\* every position is staged for the second pass, the exact matches too
Unmatched_all(guessLetters, targetLetters, i) ==
    [k \in 1..(Len(guessLetters) - i + 1) |-> i + k - 1]

\* the positions the first pass did not mark correct, left to right
RECURSIVE Unmatched(_, _, _)
Unmatched(guessLetters, targetLetters, i) ==
    IF i > Len(guessLetters) THEN <<>>
    ELSE IF ExactMatch(guessLetters, targetLetters, i)
    THEN Unmatched(guessLetters, targetLetters, i + 1)
    ELSE <<i>> \o Unmatched(guessLetters, targetLetters, i + 1)

\* the tiles after the first pass
FirstPass(guessLetters, targetLetters) ==
    [i \in 1..Len(guessLetters) |->
        [letter |-> guessLetters[i],
         state |-> IF ExactMatch(guessLetters, targetLetters, i)
                   THEN "correct" ELSE "absent"]]

\* `if (targetIndex)`: -1 counts as found, 0 as not found
Found_truthy(targetIndex) == targetIndex # 0

\* targetIndex !== -1
Found(targetIndex) == targetIndex # -1

\* the letter is left in remainingTarget for the next copy to find
Consume_keep(remainingTarget, targetIndex) == remainingTarget

\* remainingTarget.splice(targetIndex, 1)
Consume(remainingTarget, targetIndex) == Splice(remainingTarget, targetIndex)

\* the second pass goes over remainingGuess from its last element to its first
RECURSIVE SecondPass_rightToLeft(_, _, _, _)
SecondPass_rightToLeft(tiles, remainingTarget, remainingGuess, n) ==
    IF n > Len(remainingGuess) THEN tiles
    ELSE LET m == Len(remainingGuess) - n + 1
             letter == remainingGuess[m].letter
             index == remainingGuess[m].index
             targetIndex == IndexOf(remainingTarget, letter)
         IN  IF Found(targetIndex)
             THEN SecondPass_rightToLeft([tiles EXCEPT ![index].state = "present"],
                                         Consume(remainingTarget, targetIndex),
                                         remainingGuess, n + 1)
             ELSE SecondPass_rightToLeft(tiles, remainingTarget, remainingGuess, n + 1)

\* the second pass over remainingGuess, from its element at position n
RECURSIVE SecondPass(_, _, _, _)
SecondPass(tiles, remainingTarget, remainingGuess, n) ==
    IF n > Len(remainingGuess) THEN tiles
    ELSE LET letter == remainingGuess[n].letter
             index == remainingGuess[n].index
             targetIndex == IndexOf(remainingTarget, letter)
         IN  IF Found(targetIndex)
             THEN SecondPass([tiles EXCEPT ![index].state = "present"],
                             Consume(remainingTarget, targetIndex),
                             remainingGuess, n + 1)
             ELSE SecondPass(tiles, remainingTarget, remainingGuess, n + 1)

checkGuess(guess, word) ==
    LET targetLetters == word
        guessLetters == guess
        staged == Unmatched(guessLetters, targetLetters, 1)
        remainingTarget == [n \in 1..Len(staged) |-> targetLetters[staged[n]]]
        remainingGuess == [n \in 1..Len(staged) |->
                              [letter |-> guessLetters[staged[n]], index |-> staged[n]]]
    IN  [word |-> guess,
         tiles |-> SecondPass(FirstPass(guessLetters, targetLetters),
                              remainingTarget, remainingGuess, 1)]

\* `else` for `else if (!currentState)`: the state of a tile that is not
\* correct is written over a recorded state
MergeTile_noGuard(state, tile) ==
    LET hasState == tile.letter \in DOMAIN state
        set(v) == [l \in DOMAIN state \cup {tile.letter} |->
                      IF l = tile.letter THEN v ELSE state[l]]
    IN  IF tile.state = "correct" THEN set("correct")
        ELSE IF tile.state = "present" /\ ~(hasState /\ state[tile.letter] = "correct")
        THEN set("present")
        ELSE set(tile.state)

\* a state is written only for a letter that has none yet
MergeTile_firstWins(state, tile) ==
    IF tile.letter \in DOMAIN state THEN state
    ELSE [l \in DOMAIN state \cup {tile.letter} |->
             IF l = tile.letter THEN tile.state ELSE state[l]]

\* the state of the tile seen last is recorded, whatever was recorded before
MergeTile_lastWins(state, tile) ==
    [l \in DOMAIN state \cup {tile.letter} |->
        IF l = tile.letter THEN tile.state ELSE state[l]]

\* the body of the loops of getKeyboardState: one tile merged into the
\* keyboard state (a letter outside its domain has no recorded state)
MergeTile(state, tile) ==
    LET hasState == tile.letter \in DOMAIN state
        set(v) == [l \in DOMAIN state \cup {tile.letter} |->
                      IF l = tile.letter THEN v ELSE state[l]]
    IN  IF tile.state = "correct" THEN set("correct")
        ELSE IF tile.state = "present" /\ ~(hasState /\ state[tile.letter] = "correct")
        THEN set("present")
        ELSE IF ~hasState THEN set(tile.state)
        ELSE state

\* the tiles of one guess merged into the keyboard state, from tile i
RECURSIVE MergeTiles(_, _, _)
MergeTiles(state, tiles, i) ==
    IF i > Len(tiles) THEN state
    ELSE MergeTiles(MergeTile(state, tiles[i]), tiles, i + 1)

\* the guesses merged into the keyboard state, from guess n
RECURSIVE MergeGuesses(_, _, _)
MergeGuesses(state, results, n) ==
    IF n > Len(results) THEN state
    ELSE MergeGuesses(MergeTiles(state, results[n].tiles, 1), results, n + 1)

\* getKeyboardState(guesses: GuessResult[])
getKeyboardState(results) == MergeGuesses(<<>>, results, 1)

(***************************************************************************)
(* History variables: they record what happened and decide nothing.        *)
(***************************************************************************)
Min(a, b) == IF a < b THEN a ELSE b

\* the fixed window of route path that instant t falls in (0 for a route
\* without windows)
WindowOf(path, t) == IF HasConfig(path) THEN t \div WindowMs(path) ELSE 0

\* calls of checkRateLimit so far for this client and route in the window of t
CallsIn(ip, path, w) ==
    IF <<ip, path, w>> \in DOMAIN calls THEN calls[<<ip, path, w>>] ELSE 0

\* calls are counted up to maxRequests + 1 (MaxCounted without a limit)
CallCap(path) ==
    IF HasConfig(path) THEN RATE_LIMITS[path].maxRequests + 1 ELSE MaxCounted

\* the keys checkRateLimit wrote a fresh record (count 1) under
Created(before, after) ==
    {k \in DOMAIN after : after[k].count = 1 /\ (k \notin DOMAIN before \/ before[k] # after[k])}

\* what became of the record created last for this client and route
StaleState(ip, path) ==
    IF <<ip, path>> \notin DOMAIN opened THEN "none"
    ELSE IF ~(now > opened[<<ip, path>>].resetTime) THEN "open"
    ELSE IF opened[<<ip, path>>].key \in DOMAIN rateLimitStore THEN "kept"
    ELSE "swept"

InWatch(path, t) ==
    watchFrom >= 0 /\ watchFrom <= t /\ t <= watchFrom + WindowMs(path)

\* the latest request of this client to the route was rejected, and at least
\* the retryAfter of its 429 response has passed since
RetriedAfter(ip, path) ==
    /\ <<ip, path>> \in DOMAIN rejectedAt
    /\ now >= rejectedAt[<<ip, path>>] + TooManyRequests(path).retryAfter * 1000

(***************************************************************************)
(* Actions                                                                 *)
(***************************************************************************)
\* the sweep is tried for the rejected requests too
SweepRuns_always(rejected, sweep) == sweep

\* the 429 response is returned before `if (Math.random() < 0.01)` is
\* reached: the sweep runs when the request was not rejected and the draw
\* came up
SweepRuns(rejected, sweep) == ~rejected /\ sweep

\* middleware(request) of the client ip for pathname path; sweep is the
\* outcome of Math.random() < 0.01
MiddlewareStep(ip, path, sweep) ==
    LET api == IsClaudeApi(path)
        r == IF api THEN checkRateLimit(rateLimitStore, ip, path, now)
             ELSE [allowed |-> TRUE, remaining |-> 0, store |-> rateLimitStore]
        rejected == api /\ ~r.allowed
        limited == api /\ HasConfig(path)
        w == WindowOf(path, now)
        nth == IF api THEN Min(CallsIn(ip, path, w) + 1, CallCap(path)) ELSE 0
        swept == SweepRuns(rejected, sweep)
        fresh == Created(rateLimitStore, r.store)
        plain == IF api THEN checkRateLimit(plainStore, ip, path, now)
                 ELSE [allowed |-> TRUE, remaining |-> 0, store |-> plainStore]
    IN  /\ rateLimitStore' = IF swept THEN Sweep(r.store, now) ELSE r.store
        /\ plainStore' = plain.store
        /\ last' = [ip |-> ip, path |-> path, api |-> api, limited |-> limited,
                    allowed |-> r.allowed, remaining |-> r.remaining,
                    nth |-> nth, swept |-> swept,
                    waited |-> RetriedAfter(ip, path),
                    wrote |-> r.store # rateLimitStore,
                    plain |-> <<plain.allowed, plain.remaining>>,
                    stale |-> StaleState(ip, path),
                    prevCalls |-> IF <<ip, path>> \in DOMAIN opened
                                  THEN CallsIn(ip, path, opened[<<ip, path>>].window)
                                  ELSE 0,
                    response |-> IF rejected THEN TooManyRequests(path)
                                 ELSE PassedOn(api, r.remaining)]
        /\ calls' = IF api THEN MapSet(calls, <<ip, path, w>>, nth) ELSE calls
        /\ opened' = IF fresh # {}
                     THEN LET k == CHOOSE k \in fresh : TRUE
                          IN  MapSet(opened, <<ip, path>>,
                                     [key |-> k, resetTime |-> r.store[k].resetTime,
                                      window |-> w])
                     ELSE opened
        /\ watched' = IF limited /\ r.allowed /\ InWatch(path, now)
                      THEN MapSet(watched, <<ip, path>>,
                                  IF <<ip, path>> \in DOMAIN watched
                                  THEN watched[<<ip, path>>] + 1 ELSE 1)
                      ELSE watched
        /\ rejectedAt' = IF ~limited THEN rejectedAt
                         ELSE IF rejected THEN MapSet(rejectedAt, <<ip, path>>, now)
                         ELSE [p \in DOMAIN rejectedAt \ {<<ip, path>>} |-> rejectedAt[p]]
        /\ UNCHANGED <<now, traffic, instants, watchFrom, raceVars, evaluatorVars, gameVars>>

\* the middleware on its own: what the route handlers do is left out
Middleware(ip, path, sweep) ==
    /\ MiddlewareStep(ip, path, sweep)
    /\ UNCHANGED handlerVars

\* the clock moves on to a later arrival instant
Tick(t) ==
    /\ t > now
    /\ now' = t
    /\ UNCHANGED <<rateLimitStore, last, traffic, instants, calls, opened,
                   watchFrom, watched, rejectedAt, plainStore, handlerVars, raceVars,
                   evaluatorVars, gameVars>>

Next ==
    \/ \E t \in instants : Tick(t)
    \/ \E pair \in traffic, sweep \in BOOLEAN : Middleware(pair[1], pair[2], sweep)

(***************************************************************************)
(* Initial states                                                          *)
(***************************************************************************)
\* no call of checkRateLimit overlaps another
NoRace ==
    /\ objects = <<>>
    /\ slot = 0
    /\ inFlight = <<>>
    /\ arrived = 0
    /\ admitted = 0
    /\ raced = 0
    /\ lonely = 0

\* no route handler has run
NotServed ==
    [path |-> "", passed |-> FALSE, posts |-> 0, llm |-> 0, kind |-> "none",
     enabled |-> "none"]

\* the runs that leave the route handlers out
NoHandler ==
    /\ env = <<>>
    /\ llmCalls = <<>>
    /\ served = NotServed

NoCall ==
    [ip |-> "", path |-> "", api |-> FALSE, limited |-> FALSE,
     allowed |-> TRUE, remaining |-> 0, nth |-> 0, swept |-> FALSE, waited |-> FALSE,
     wrote |-> FALSE, plain |-> <<TRUE, 0>>, stale |-> "none", prevCalls |-> 0,
     response |-> PassedOn(FALSE, 0)]

\* arrival instants within each of the first windows: the first, the middle
\* and the last millisecond
Grid(windowMs, windows) ==
    {w * windowMs + o : w \in 0..(windows - 1),
                        o \in {0, windowMs \div 2, windowMs - 1}}

\* the first and the last millisecond of each window
Edges(windowMs, windows) ==
    {w * windowMs + o : w \in 0..(windows - 1), o \in {0, windowMs - 1}}

\* one arrival instant per window, each 1 ms later in its window than the one
\* before, so that the record of the window before has expired
Drift(windowMs, windows) ==
    {w * windowMs + w : w \in 0..(windows - 1)}

IPs == {"203.0.113.7", "unknown"}

\* runs that exercise several keys at once: two clients of one route within
\* a day, one client on two limited routes within an hour, and one client on
\* a limited route, an unlimited one and a page over hours
Profiles ==
    { [pairs |-> IPs \X {"/api/claude/generate-word"},
       grid |-> Grid(WindowMs("/api/claude/generate-word"), 1)],
      [pairs |-> {"unknown"} \X {"/api/claude/generate-word", "/api/claude/game-over"},
       grid |-> Grid(WindowMs("/api/claude/game-over"), 1)],
      [pairs |-> {"unknown"} \X {"/api/claude/game-over", "/api/claude/status", "/"},
       grid |-> Drift(WindowMs("/api/claude/game-over"), MaxWindows)] }

\* the statistics of a player without finished games
ZeroStats ==
    [gamesPlayed |-> 0, gamesWon |-> 0, currentStreak |-> 0, maxStreak |-> 0,
     guessDistribution |-> <<0, 0, 0, 0, 0, 0>>]

\* the state of the component ClaudLE when it is mounted, with nothing saved
\* in localStorage
Mounted ==
    /\ usedWords = {}
    /\ stats = ZeroStats
    /\ currentGuess = <<>>
    /\ guesses = <<>>
    /\ gameState = "playing"
    /\ gameStarted = FALSE
    /\ useAudioStart = TRUE
    /\ isLoadingWord = FALSE
    /\ audioStart = TRUE

\* no guess is evaluated and no game played in the runs of the rate limiter
NoGame ==
    /\ targetWord = <<>>
    /\ history = <<>>
    /\ submitted = <<>>
    /\ keyboardState = <<>>
    /\ Mounted

InitStore ==
    /\ NoGame
    /\ now = 0
    /\ rateLimitStore = <<>>
    /\ last = NoCall
    /\ calls = <<>>
    /\ opened = <<>>
    /\ watched = <<>>
    /\ rejectedAt = <<>>
    /\ NoRace
    /\ plainStore = <<>>
    /\ NoHandler

Init ==
    /\ InitStore
    /\ \E p \in Profiles : traffic = p.pairs /\ instants = p.grid
    /\ watchFrom = -1

Spec == Init /\ [][Next]_vars

\* one client on one configured route, within one window
InitRoute ==
    /\ InitStore
    /\ \E ip \in IPs, path \in DOMAIN RATE_LIMITS :
          /\ traffic = {<<ip, path>>}
          /\ instants = Grid(WindowMs(path), 1)
    /\ watchFrom = -1

SpecRoute == InitRoute /\ [][Next]_vars

\* one client on one configured route and on a page, over several windows,
\* with one interval of a window's length watched
InitWindows ==
    /\ InitStore
    /\ \/ /\ traffic = {"unknown"} \X {"/api/claude/generate-word", "/"}
          /\ instants = Edges(WindowMs("/api/claude/generate-word"), MaxWindows)
       \/ /\ traffic = {"unknown"} \X {"/api/claude/game-over", "/"}
          /\ instants = Drift(WindowMs("/api/claude/game-over"), MaxWindows)
    /\ watchFrom \in instants

SpecWindows == InitWindows /\ [][Next]_vars

(***************************************************************************)
(* The guess evaluator on its own                                          *)
(***************************************************************************)
\* a guess is evaluated against the target and the keyboard refreshed
Evaluate(guess) ==
    /\ history' = Append(history, checkGuess(guess, targetWord))
    /\ submitted' = Append(submitted, guess)
    /\ keyboardState' = getKeyboardState(history')
    /\ UNCHANGED <<targetWord, limiterVars, gameVars>>

\* no request arrives at the middleware
NoRequests ==
    /\ now = 0
    /\ rateLimitStore = <<>>
    /\ last = NoCall
    /\ traffic = {}
    /\ instants = {}
    /\ calls = <<>>
    /\ opened = <<>>
    /\ watchFrom = -1
    /\ watched = <<>>
    /\ rejectedAt = <<>>
    /\ NoRace
    /\ plainStore = <<>>

\* no request arrives in the runs of the evaluator
NoTraffic ==
    /\ NoRequests
    /\ NoHandler
    /\ Mounted

\* the words of WordLength letters over a set of letters
WordsOver(letters) == [1..WordLength -> letters]

ALARM == <<"A", "L", "A", "R", "M">>
LLAMA == <<"L", "L", "A", "M", "A">>
AUDIO == <<"A", "U", "D", "I", "O">>
ADIEU == <<"A", "D", "I", "E", "U">>

\* every word over three letters, and the words of the documented examples
Words == WordsOver({"A", "L", "M"}) \cup {ALARM, AUDIO, ADIEU}

\* every pair of these words, evaluated once
InitEval ==
    /\ NoTraffic
    /\ targetWord \in Words
    /\ history = <<>>
    /\ submitted = <<>>
    /\ keyboardState = getKeyboardState(<<>>)

NextEval == \E guess \in Words : history = <<>> /\ Evaluate(guess)

SpecEval == InitEval /\ [][NextEval]_vars

\* histories of guesses over two letters against one target
InitKeyboard ==
    /\ NoTraffic
    /\ targetWord \in {w \in WordsOver({"A", "L"}) : w[1] = "A" /\ w[2] = "L" /\ w[3] = "A"}
    /\ history = <<>>
    /\ submitted = <<>>
    /\ keyboardState = getKeyboardState(<<>>)

NextKeyboard ==
    \E guess \in WordsOver({"A", "L"}) : Len(history) < MaxHistory /\ Evaluate(guess)

SpecKeyboard == InitKeyboard /\ [][NextKeyboard]_vars

(***************************************************************************)
(* The game session of src/components/ClaudLE.tsx                          *)
(***************************************************************************)
\* a game is lost with its sixth guess
MaxGuesses == 6

\* games that end, counted in stats.gamesPlayed, before no further game is
\* started
MaxGames == 2

\* Math.max
Max(a, b) == IF a > b THEN a ELSE b

\* String.prototype.toUpperCase, on the letters that are typed
UpperOf ==
    "a" :> "A" @@ "l" :> "L" @@ "m" :> "M" @@ "r" :> "R"

ToUpperCase(word) ==
    [i \in DOMAIN word |-> IF word[i] \in DOMAIN UpperOf THEN UpperOf[word[i]] ELSE word[i]]

\* /^[A-Z]*$/.test(value), on the letters that are typed
IsUpperAZ(word) ==
    \A i \in DOMAIN word : word[i] \in {"A", "D", "I", "L", "M", "O", "R", "U"}

\* String.prototype.includes, for one letter
Includes(word, letter) == \E i \in DOMAIN word : word[i] = letter

\* getLetterStatus(guess, letterIndex): the state the board shows for the
\* tile at the 0-based letterIndex of a submitted guess
getLetterStatus(guess, letterIndex) ==
    LET letter == guess[letterIndex + 1]
    IN  IF letterIndex + 1 \in DOMAIN targetWord /\ letter = targetWord[letterIndex + 1]
        THEN "correct"
        ELSE IF Includes(targetWord, letter) THEN "present"
        ELSE "absent"

\* `>` for `>=`: the game is lost with its seventh guess
OutOfGuesses_late(newGuesses) == Len(newGuesses) > MaxGuesses

\* newGuesses.length >= 6
OutOfGuesses(newGuesses) == Len(newGuesses) >= MaxGuesses

\* the setting Start with "AUDIO" is switched
ToggleAudioStart ==
    /\ useAudioStart' = ~useAudioStart
    /\ UNCHANGED <<targetWord, gameStarted, guesses, currentGuess, gameState,
                   isLoadingWord, audioStart, usedWords, stats>>
    /\ UNCHANGED <<limiterVars, history, keyboardState, submitted>>

\* startNewGame up to its await: the New Game buttons are disabled while
\* a word is loading
StartNewGame ==
    /\ ~isLoadingWord
    /\ stats.gamesPlayed < MaxGames
    /\ gameStarted' = TRUE
    /\ isLoadingWord' = TRUE
    /\ audioStart' = useAudioStart
    /\ UNCHANGED <<targetWord, guesses, currentGuess, gameState, useAudioStart,
                   usedWords, stats>>
    /\ UNCHANGED <<limiterVars, history, keyboardState, submitted>>

\* handleInputChange: the input field is shown while the game is played
HandleInputChange(typed) ==
    /\ gameStarted
    /\ gameState = "playing"
    /\ LET value == ToUpperCase(typed)
       IN  currentGuess' = IF Len(value) <= WordLength /\ IsUpperAZ(value)
                           THEN value ELSE currentGuess
    /\ UNCHANGED <<targetWord, gameStarted, guesses, gameState, useAudioStart,
                   isLoadingWord, audioStart, usedWords, stats>>
    /\ UNCHANGED <<limiterVars, history, keyboardState, submitted>>

\* the longest streak is taken from the streak before the win
updateStats_maxStreakStale(prev, won, guessCount) ==
    LET newStats ==
            [gamesPlayed |-> prev.gamesPlayed + 1,
             gamesWon |-> IF won THEN prev.gamesWon + 1 ELSE prev.gamesWon,
             currentStreak |-> IF won THEN prev.currentStreak + 1 ELSE 0,
             maxStreak |-> IF won THEN Max(prev.maxStreak, prev.currentStreak)
                           ELSE prev.maxStreak,
             guessDistribution |-> prev.guessDistribution]
    IN  IF won /\ guessCount <= MaxGuesses
        THEN [newStats EXCEPT !.guessDistribution[guessCount] = @ + 1]
        ELSE newStats

\* the updater updateStats hands to setStats: the statistics after a game
\* that ended won or lost with guessCount guesses
updateStats(prev, won, guessCount) ==
    LET newStats ==
            [gamesPlayed |-> prev.gamesPlayed + 1,
             gamesWon |-> IF won THEN prev.gamesWon + 1 ELSE prev.gamesWon,
             currentStreak |-> IF won THEN prev.currentStreak + 1 ELSE 0,
             maxStreak |-> IF won THEN Max(prev.maxStreak, prev.currentStreak + 1)
                           ELSE prev.maxStreak,
             guessDistribution |-> prev.guessDistribution]
    IN  IF won /\ guessCount <= MaxGuesses
        THEN [newStats EXCEPT !.guessDistribution[guessCount] = @ + 1]
        ELSE newStats

\* submitGuess, called in any state of a started game
SubmitGuess ==
    /\ gameStarted
    /\ IF Len(currentGuess) # WordLength \/ gameState # "playing"
       THEN UNCHANGED <<guesses, gameState, currentGuess, stats>>
       ELSE LET newGuesses == Append(guesses, ToUpperCase(currentGuess))
                won == ToUpperCase(currentGuess) = targetWord
            IN  /\ guesses' = newGuesses
                /\ gameState' = IF won THEN "won"
                                ELSE IF OutOfGuesses(newGuesses) THEN "lost"
                                ELSE gameState
                /\ stats' = IF won THEN updateStats(stats, TRUE, Len(newGuesses))
                            ELSE IF OutOfGuesses(newGuesses)
                            THEN updateStats(stats, FALSE, Len(newGuesses))
                            ELSE stats
                /\ currentGuess' = <<>>
    /\ UNCHANGED <<targetWord, gameStarted, useAudioStart, isLoadingWord, audioStart,
                   usedWords>>
    /\ UNCHANGED <<limiterVars, history, keyboardState, submitted>>

\* Reset All Statistics, confirmed in the dialog
ResetStats ==
    /\ gameStarted
    /\ stats' = ZeroStats
    /\ UNCHANGED <<targetWord, gameStarted, guesses, currentGuess, gameState,
                   useAudioStart, isLoadingWord, audioStart, usedWords>>
    /\ UNCHANGED <<limiterVars, history, keyboardState, submitted>>

(***************************************************************************)
(* The route handlers of src/app/api/claude: POST of generate-word,        *)
(* get-hint, game-over and coaching.  A request is its JSON body and the   *)
(* flag bodyUsed of the Fetch API; replies are what the successive calls   *)
(* of claudeClient.messages.create return (or that they throw).            *)
(***************************************************************************)
\* replies handed to one request (a call beyond them gets a fresh word)
MaxReplies == 2

\* process.env[name] is truthy
EnvTruthy(name) == name \in DOMAIN env /\ env[name] # ""

\* the flag is read as any non-empty value
CoachingEnabled_truthy == EnvTruthy("ENABLE_INTERACTIVE_COACHING")

\* process.env.ENABLE_INTERACTIVE_COACHING === 'true'
CoachingEnabled ==
    /\ "ENABLE_INTERACTIVE_COACHING" \in DOMAIN env
    /\ env["ENABLE_INTERACTIVE_COACHING"] = "true"

\* checkApiKey() does not throw
ApiKeySet == EnvTruthy("ANTHROPIC_API_KEY")

\* the body can be read again and again
ReadJson_reusable(request) ==
    [ok |-> request.body.json, request |-> request]

\* await request.json(): it rejects when the body was read before or is not
\* JSON, and leaves the body used
ReadJson(request) ==
    [ok |-> ~request.bodyUsed /\ request.body.json,
     request |-> [request EXCEPT !.bodyUsed = TRUE]]

\* the fields of the body that pass the handler's validation
HasFields(request, names) == names \subseteq request.body.fields

NextReply(replies) ==
    IF replies = <<>> THEN [error |-> FALSE, text |-> AUDIO] ELSE Head(replies)

RestOf(replies) == IF replies = <<>> THEN <<>> ELSE Tail(replies)

\* what one call of POST did: the calls of messages.create it made (llm), the
\* invocations of POST (posts) and the response
Handled(llm, status, kind, enabled, word) ==
    [posts |-> 1, llm |-> llm, status |-> status, kind |-> kind,
     enabled |-> enabled, word |-> word]

\* word.length !== 5 || !/^[A-Z]+$/.test(word) is false
ValidWord(word) == Len(word) = WordLength /\ IsUpperAZ(word)

\* POST of generate-word/route.ts
RECURSIVE GenerateWordPOST(_, _)
GenerateWordPOST(request, replies) ==
    LET fallback(llm) == Handled(llm, 200, "fallback", "none", AUDIO)
        read == ReadJson(request)
        reply == NextReply(replies)
        word == ToUpperCase(reply.text)
    IN  IF ~ApiKeySet THEN fallback(0)
        ELSE IF ~read.ok THEN fallback(0)
        ELSE IF ~request.body.themeKnown
        THEN Handled(0, 400, "error", "none", <<>>)
        ELSE IF reply.error THEN fallback(1)
        ELSE IF ~ValidWord(word) THEN fallback(1)
        ELSE IF word \in request.body.usedWords
        THEN LET retry == GenerateWordPOST(read.request, RestOf(replies))
             IN  [retry EXCEPT !.llm = @ + 1, !.posts = @ + 1]
        ELSE Handled(1, 200, "word", "none", word)

\* POST of get-hint/route.ts
HintPOST(request, replies) ==
    LET fallback(llm) == Handled(llm, 200, "fallback", "none", <<>>)
    IN  IF ~ApiKeySet THEN fallback(0)
        ELSE IF ~ReadJson(request).ok THEN fallback(0)
        ELSE IF ~HasFields(request, {"targetWord", "guesses"})
        THEN Handled(0, 400, "error", "none", <<>>)
        ELSE IF NextReply(replies).error THEN fallback(1)
        ELSE Handled(1, 200, "hint", "none", <<>>)

\* POST of the game-over route
GameOverPOST(request, replies) ==
    LET fallback(llm) == Handled(llm, 200, "fallback", "none", <<>>)
    IN  IF ~ReadJson(request).ok THEN fallback(0)
        ELSE IF ~HasFields(request, {"targetWord", "guesses", "won"})
        THEN Handled(0, 400, "error", "none", <<>>)
        ELSE IF NextReply(replies).error THEN fallback(1)
        ELSE Handled(1, 200, "feedback", "none", <<>>)

\* POST of coaching/route.ts
CoachingPOST(request, replies) ==
    LET fallback(llm) == Handled(llm, 200, "fallback", "true", <<>>)
    IN  IF ~CoachingEnabled THEN Handled(0, 200, "disabled", "false", <<>>)
        ELSE IF ~ReadJson(request).ok THEN fallback(0)
        ELSE IF ~HasFields(request, {"targetWord", "guesses", "currentGuess"})
        THEN Handled(0, 400, "error", "none", <<>>)
        ELSE IF NextReply(replies).error THEN fallback(1)
        ELSE Handled(1, 200, "coaching", "true", <<>>)

\* the handler the router runs for a request that the middleware passed on
RouteHandler(path, request, replies) ==
    CASE path = "/api/claude/generate-word" -> GenerateWordPOST(request, replies)
      [] path = "/api/claude/get-hint" -> HintPOST(request, replies)
      [] path = "/api/claude/game-over" -> GameOverPOST(request, replies)
      [] path = "/api/claude/coaching" -> CoachingPOST(request, replies)
      [] OTHER -> [posts |-> 0, llm |-> 0, status |-> 404, kind |-> "none",
                   enabled |-> "none", word |-> <<>>]

\* a request from its arrival to its response: the middleware, and the route
\* handler when the middleware passed the request on
Request(ip, path, sweep, body, replies) ==
    /\ MiddlewareStep(ip, path, sweep)
    /\ LET passed == last'.response.passed
           out == IF passed
                  THEN RouteHandler(path, [body |-> body, bodyUsed |-> FALSE], replies)
                  ELSE NotServed
           key == <<ip, path, WindowOf(path, now)>>
       IN  /\ served' = [path |-> path, passed |-> passed, posts |-> out.posts,
                         llm |-> out.llm, kind |-> out.kind, enabled |-> out.enabled]
           /\ llmCalls' = IF out.llm = 0 THEN llmCalls
                          ELSE MapSet(llmCalls, key,
                                      (IF key \in DOMAIN llmCalls THEN llmCalls[key] ELSE 0)
                                          + out.llm)
    /\ UNCHANGED env

\* bodies of requests: not JSON, {}, a complete body, and one with an
\* unknown theme and neither currentGuess nor a boolean won
AllFields == {"targetWord", "guesses", "currentGuess", "won"}

Bodies ==
    { [json |-> FALSE, fields |-> {}, themeKnown |-> TRUE, usedWords |-> {}],
      [json |-> TRUE, fields |-> {}, themeKnown |-> TRUE, usedWords |-> {}],
      [json |-> TRUE, fields |-> AllFields, themeKnown |-> TRUE, usedWords |-> {ALARM}],
      [json |-> TRUE, fields |-> {"targetWord", "guesses"}, themeKnown |-> FALSE,
       usedWords |-> {ALARM}] }

\* what messages.create returns: it throws, a word in lower case that the
\* complete body has used, a fresh word, a text that is no word
UsedReply == [error |-> FALSE, text |-> <<"a", "l", "a", "r", "m">>]

Replies ==
    { [error |-> TRUE, text |-> <<>>],
      UsedReply,
      [error |-> FALSE, text |-> AUDIO],
      [error |-> FALSE, text |-> <<"A", "L">>] }

\* the replies one request may get: only generate-word asks for a further
\* reply, and only after a used word; the other handlers tell a thrown error
\* from a text
RepliesFor(path) ==
    IF path = "/api/claude/generate-word"
    THEN {[i \in 1..n |-> IF i < n THEN UsedReply ELSE reply] :
             n \in 1..MaxReplies, reply \in Replies}
    ELSE {<<reply>> : reply \in {r \in Replies : r.error \/ r.text = AUDIO}}

\* process.env: nothing set, the key only, and the key with the coaching flag
\* set to 'true', 'false', 'TRUE' or '1'
Envs ==
    {<<>>, "ANTHROPIC_API_KEY" :> "sk-ant"} \cup
    { "ANTHROPIC_API_KEY" :> "sk-ant" @@ "ENABLE_INTERACTIVE_COACHING" :> flag :
        flag \in {"true", "false", "TRUE", "1"} }

\* one client on one configured route within one window, at its first and
\* its last millisecond: generate-word with and without the API key, get-hint
\* and game-over with the key, coaching under each setting of its flag
InitCost ==
    /\ NoGame
    /\ now = 0
    /\ rateLimitStore = <<>>
    /\ last = NoCall
    /\ calls = <<>>
    /\ opened = <<>>
    /\ watched = <<>>
    /\ rejectedAt = <<>>
    /\ NoRace
    /\ plainStore = <<>>
    /\ watchFrom = -1
    /\ llmCalls = <<>>
    /\ served = NotServed
    /\ \/ /\ traffic = {<<"unknown", "/api/claude/generate-word">>}
          /\ instants = Edges(WindowMs("/api/claude/generate-word"), 1)
          /\ env \in {e \in Envs : DOMAIN e \subseteq {"ANTHROPIC_API_KEY"}}
       \/ /\ traffic \in {{<<"unknown", "/api/claude/get-hint">>},
                            {<<"unknown", "/api/claude/game-over">>}}
          /\ instants = Edges(WindowMs("/api/claude/game-over"), 1)
          /\ env = "ANTHROPIC_API_KEY" :> "sk-ant"
       \/ /\ traffic = {<<"unknown", "/api/claude/coaching">>}
          /\ instants = Edges(WindowMs("/api/claude/coaching"), 1)
          /\ env \in Envs
          /\ "ANTHROPIC_API_KEY" \in DOMAIN env

\* the bodies sent to a route: every body, but only the complete one to the
\* coaching route while coaching is enabled
BodiesFor(path) ==
    IF path = "/api/claude/coaching" /\ CoachingEnabled
    THEN {body \in Bodies : body.fields = AllFields}
    ELSE Bodies

NextCost ==
    \/ \E t \in instants : Tick(t)
    \/ \E pair \in traffic, sweep \in BOOLEAN :
          \E body \in BodiesFor(pair[2]), replies \in RepliesFor(pair[2]) :
              Request(pair[1], pair[2], sweep, body, replies)

SpecCost == InitCost /\ [][NextCost]_vars

(***************************************************************************)
(* The game session: a new game.  getNewWord fetches the generate-word     *)
(* route; a response is what fetch resolves to: ok (a 2xx status) and the *)
(* word of its JSON body.                                                  *)
(***************************************************************************)
\* fetches of one getNewWord() that get a response of the route (a fetch
\* beyond them is rejected by the rate limiter, or fails)
MaxFetches == 2

\* !response.ok: the 429 of the middleware, another error status, or a fetch
\* that throws
NotOk == [ok |-> FALSE, word |-> <<>>]

\* the request getNewWord sends: the theme, always a known one, and usedWords
WordRequest(used) ==
    [body |-> [json |-> TRUE, fields |-> {}, themeKnown |-> TRUE, usedWords |-> used],
     bodyUsed |-> FALSE]

\* what fetch can resolve to, for the words in use
RouteResponses(used) ==
    {NotOk} \cup
    {LET out == GenerateWordPOST(WordRequest(used), replies)
     IN  [ok |-> out.status = 200, word |-> out.word] :
        replies \in RepliesFor("/api/claude/generate-word")}

\* getNewWord(): the word of the response, another call of getNewWord when
\* that word is in usedWords, and 'AUDIO' when anything throws
RECURSIVE getNewWord(_, _)
getNewWord(used, responses) ==
    LET response == IF responses = <<>> THEN NotOk ELSE Head(responses)
    IN  IF ~response.ok THEN AUDIO
        ELSE IF Len(response.word) # WordLength \/ ~IsUpperAZ(response.word) THEN AUDIO
        ELSE IF response.word \in used THEN getNewWord(used, Tail(responses))
        ELSE response.word

\* startNewGame from its await on: getNewWord() has returned, its retries
\* taken in one step
WordLoaded(responses) ==
    /\ isLoadingWord
    /\ LET newWord == getNewWord(usedWords, responses)
       IN  /\ targetWord' = newWord
           /\ usedWords' = usedWords \cup {newWord}
    /\ guesses' = IF audioStart THEN <<AUDIO>> ELSE <<>>
    /\ currentGuess' = <<>>
    /\ gameState' = "playing"
    /\ isLoadingWord' = FALSE
    /\ audioStart' = TRUE
    /\ UNCHANGED <<gameStarted, useAudioStart, stats>>
    /\ UNCHANGED <<limiterVars, history, keyboardState, submitted>>

\* what is typed into the input field: a word, a word in lower case, part of
\* a word, and values the field does not take
Typed ==
    {AUDIO, <<"a", "l", "a", "r", "m">>, <<"A", "L">>, <<"A", "1">>,
     <<"A", "L", "A", "R", "M", "A">>}

\* the responses the fetches of one getNewWord() get
ResponsesFor(used) ==
    UNION {[1..n -> RouteResponses(used)] : n \in 1..MaxFetches}

\* the component is mounted; the server has its API key
InitGame ==
    /\ NoRequests
    /\ Mounted
    /\ env = "ANTHROPIC_API_KEY" :> "sk-ant"
    /\ llmCalls = <<>>
    /\ served = NotServed
    /\ targetWord = <<>>
    /\ history = <<>>
    /\ submitted = <<>>
    /\ keyboardState = <<>>

NextGame ==
    \/ ToggleAudioStart
    \/ StartNewGame
    \/ \E responses \in ResponsesFor(usedWords) : WordLoaded(responses)
    \/ \E typed \in Typed : HandleInputChange(typed)
    \/ SubmitGuess
    \/ ResetStats

SpecGame == InitGame /\ [][NextGame]_vars

(***************************************************************************)
(* checkRateLimit with overlapping calls.  The code is synchronous: a call *)
(* runs from its read of the map to its write without another call in      *)
(* between.  Here a call is split after its tests (lines 39-52) and before *)
(* its write (lines 43-47 or 55-58), so that calls for one key can         *)
(* overlap; a call that runs both steps with no other call pending is the  *)
(* atomic call of the code.  `current` is a reference to the record object *)
(* that rateLimitStore.get returned.                                       *)
(***************************************************************************)
\* calls of checkRateLimit in a run with overlapping calls
MaxCalls == 8

RacePath == "/api/claude/generate-word"
RaceKey == getRateLimitKey("unknown", RacePath, now)

\* `>` for `>=` in the ceiling test
Decide_offByOne(current, path, t) ==
    IF current = 0 \/ t > objects[current].resetTime THEN "fresh"
    ELSE IF objects[current].count > RATE_LIMITS[path].maxRequests THEN "reject"
    ELSE "increment"

\* the tests of checkRateLimit on the record it read: `!current || now >
\* current.resetTime`, then `current.count >= config.maxRequests`
Decide(current, path, t) ==
    IF current = 0 \/ t > objects[current].resetTime THEN "fresh"
    ELSE IF objects[current].count >= RATE_LIMITS[path].maxRequests THEN "reject"
    ELSE "increment"

\* one more or one fewer pending call that holds the reference ref
Hold(ref, n) ==
    LET held == IF ref \in DOMAIN inFlight THEN inFlight[ref] ELSE 0
    IN  IF held + n = 0
        THEN [x \in DOMAIN inFlight \ {ref} |-> inFlight[x]]
        ELSE MapSet(inFlight, ref, held + n)

\* a call reads the record under the key and tests it; a rejected call
\* returns at once, any other call is pending until its write
BeginCall ==
    /\ arrived < MaxCalls
    /\ arrived' = arrived + 1
    /\ LET decision == Decide(slot, RacePath, now)
           ref == IF decision = "fresh" THEN 0 ELSE slot
       IN  IF decision = "reject"
           THEN UNCHANGED <<inFlight, raced, lonely>>
           ELSE /\ inFlight' = Hold(ref, 1)
                /\ raced' = IF inFlight = <<>> THEN raced ELSE raced + 1 + lonely
                /\ lonely' = IF inFlight = <<>> THEN 1 ELSE 0
    /\ UNCHANGED <<objects, slot, admitted, rateLimitStore>>
    /\ UNCHANGED <<now, last, traffic, instants, calls, opened, watchFrom, watched,
                   rejectedAt, plainStore, handlerVars, evaluatorVars, gameVars>>

\* a pending call writes: a record with count 1 under the key when it found
\* none, else current.count++ and the record it holds set under the key;
\* it returns allowed = true
FinishCall(ref) ==
    /\ ref \in DOMAIN inFlight
    /\ objects' = IF ref = 0
                  THEN Append(objects, [count |-> 1,
                                        resetTime |-> now + WindowMs(RacePath)])
                  ELSE [objects EXCEPT ![ref].count = @ + 1]
    /\ slot' = IF ref = 0 THEN Len(objects') ELSE ref
    /\ rateLimitStore' = RaceKey :> objects'[slot']
    /\ inFlight' = Hold(ref, -1)
    /\ admitted' = admitted + 1
    /\ lonely' = 0
    /\ UNCHANGED <<arrived, raced>>
    /\ UNCHANGED <<now, last, traffic, instants, calls, opened, watchFrom, watched,
                   rejectedAt, plainStore, handlerVars, evaluatorVars, gameVars>>

InitRace == NoTraffic /\ NoGame

NextRace ==
    \/ BeginCall
    \/ \E ref \in DOMAIN inFlight : FinishCall(ref)

SpecRace == InitRace /\ [][NextRace]_vars

(***************************************************************************)
(* Properties                                                              *)
(***************************************************************************)
MaxRequestsOf(path) == RATE_LIMITS[path].maxRequests

\* C1: within one window, starting from no record, the n-th call of
\* checkRateLimit for a client and a configured route is allowed with
\* remaining = maxRequests - n while n <= maxRequests, and every later call
\* is rejected with remaining = 0 (checked for all four configured routes).
C1_WindowSequence ==
    last.limited =>
        IF last.nth <= MaxRequestsOf(last.path)
        THEN last.allowed /\ last.remaining = MaxRequestsOf(last.path) - last.nth
        ELSE ~last.allowed /\ last.remaining = 0

\* the 101st call of the coaching route in one window is rejected
C1_Witness ==
    /\ last.limited
    /\ last.path = "/api/claude/coaching"
    /\ last.nth = MaxRequestsOf("/api/claude/coaching") + 1
    /\ ~last.allowed
    /\ last.remaining = 0

\* C2: every record of the store belongs to a client, a configured route and
\* a window of the run, and its count is between 1 and the route's maxRequests.
C2_CountWithinLimit ==
    \A k \in DOMAIN rateLimitStore :
        \E pair \in traffic, t \in instants :
            /\ HasConfig(pair[2])
            /\ k = getRateLimitKey(pair[1], pair[2], t)
            /\ 1 <= rateLimitStore[k].count
            /\ rateLimitStore[k].count <= MaxRequestsOf(pair[2])

\* a request was rejected with the record at its ceiling, in a window later
\* than one the client already used
C2_Witness ==
    /\ last.limited /\ ~last.allowed
    /\ \E k \in DOMAIN rateLimitStore :
          rateLimitStore[k].count = MaxRequestsOf(last.path)
    /\ \E w \in DOMAIN calls : w[1] = last.ip /\ w[2] = last.path
                               /\ w[3] < WindowOf(last.path, now)

\* C3: a request that arrives after the resetTime of the record created last
\* for its client and route has passed is allowed with remaining =
\* maxRequests - 1, whether that record is still in the store or was swept.
C3_Rollover ==
    (last.limited /\ last.stale \in {"kept", "swept"}) =>
        last.allowed /\ last.remaining = MaxRequestsOf(last.path) - 1

\* the window before was exhausted (a request was rejected in it) and its
\* record swept before the request arrived
C3_Witness ==
    /\ last.limited
    /\ last.stale = "swept"
    /\ last.prevCalls = MaxRequestsOf(last.path) + 1
    /\ last.allowed

\* what a request of this client for this route would be answered now
Outcome(pair) ==
    LET r == checkRateLimit(rateLimitStore, pair[1], pair[2], now)
    IN  <<r.allowed, r.remaining>>

\* C4: a request changes the answer that is due to no other <<client, route>>:
\* every step of the middleware for one pair leaves Outcome of all other
\* pairs as it was.
C4_Isolation ==
    [][now' = now =>
          \A pair \in traffic :
              pair # <<last'.ip, last'.path>> => Outcome(pair)' = Outcome(pair)]_vars

\* a first request that is allowed with its full count while another pair of
\* the same window start has used up its own
C4_Witness ==
    /\ last.limited /\ last.allowed /\ last.nth = 1
    /\ last.remaining = MaxRequestsOf(last.path) - 1
    /\ \E other \in traffic :
          /\ other # <<last.ip, last.path>>
          /\ HasConfig(other[2])
          /\ CallsIn(other[1], other[2], WindowOf(other[2], now)) > MaxRequestsOf(other[2])

\* the letters of a word
LettersOf(word) == {word[i] : i \in 1..Len(word)}

\* the tiles of a result that bear the letter and are correct or present
Marked(result, letter) ==
    Cardinality({i \in 1..Len(result.tiles) :
                    /\ result.tiles[i].letter = letter
                    /\ result.tiles[i].state \in {"correct", "present"}})

Occurrences(word, letter) == Cardinality({i \in 1..Len(word) : word[i] = letter})

\* C5: for every letter, checkGuess marks no more tiles of it correct or
\* present than the target has occurrences of it.
C5_DuplicateRule ==
    \A n \in 1..Len(history) :
        \A letter \in LettersOf(history[n].word) :
            Marked(history[n], letter) <= Occurrences(targetWord, letter)

\* LLAMA against ALARM: absent, correct, correct, present, present
C5_Witness ==
    /\ targetWord = ALARM
    /\ Len(history) = 1
    /\ history[1].word = LLAMA
    /\ [i \in 1..WordLength |-> history[1].tiles[i].state]
           = <<"absent", "correct", "correct", "present", "present">>

\* C6: a guess equal to the target has every tile correct.
C6_ExactGuess ==
    \A n \in 1..Len(history) :
        history[n].word = targetWord =>
            \A i \in 1..Len(history[n].tiles) : history[n].tiles[i].state = "correct"

\* ALARM guessed against ALARM
C6_Witness ==
    /\ targetWord = ALARM
    /\ Len(history) = 1
    /\ history[1].word = targetWord
    /\ Len(history[1].tiles) = WordLength

\* C7: a guess that shares no letter with the target has every tile absent.
C7_NoSharedLetter ==
    \A n \in 1..Len(history) :
        LettersOf(history[n].word) \cap LettersOf(targetWord) = {} =>
            \A i \in 1..Len(history[n].tiles) : history[n].tiles[i].state = "absent"

\* a guess of two different letters, neither of them in AUDIO
C7_Witness ==
    /\ targetWord = AUDIO
    /\ Len(history) = 1
    /\ Cardinality(LettersOf(history[1].word)) = 2
    /\ LettersOf(history[1].word) \cap LettersOf(targetWord) = {}

\* C8: a letter the keyboard state maps to correct is still mapped to correct
\* after every further guess.
C8_CorrectIsKept ==
    [][\A letter \in DOMAIN keyboardState :
          keyboardState[letter] = "correct" =>
              /\ letter \in DOMAIN keyboardState'
              /\ keyboardState'[letter] = "correct"]_vars

\* a letter is correct in the first guess, its only tiles in the second guess
\* are absent or present, and the keyboard still shows it correct
C8_Witness ==
    /\ Len(history) = 2
    /\ \E letter \in LettersOf(history[2].word) :
          /\ \E i \in 1..WordLength : history[1].tiles[i] = [letter |-> letter, state |-> "correct"]
          /\ \E i \in 1..WordLength : history[2].tiles[i] = [letter |-> letter, state |-> "absent"]
          /\ \A i \in 1..WordLength : history[2].tiles[i] # [letter |-> letter, state |-> "correct"]
          /\ keyboardState[letter] = "correct"

\* C9: checkRateLimit for a route without a configured limit answers
\* allowed with remaining 999 on every call and writes nothing to the store.
C9_FailOpen ==
    (last.api /\ ~last.limited) =>
        last.allowed /\ last.remaining = 999 /\ ~last.wrote

\* the unconfigured route called again and again while the store holds records
C9_Witness ==
    /\ last.api /\ ~last.limited
    /\ last.nth = MaxCounted
    /\ rateLimitStore # <<>>
    /\ last.allowed /\ last.remaining = 999

\* C10: the requests admitted for one client and configured route in the
\* watched interval, which is one window long, number at most 2 x maxRequests.
C10_BurstBound ==
    \A pair \in DOMAIN watched : watched[pair] <= 2 * MaxRequestsOf(pair[2])

\* the burst at a window boundary: 2 x maxRequests admitted in the interval
C10_Witness ==
    \E pair \in DOMAIN watched : watched[pair] = 2 * MaxRequestsOf(pair[2])

\* C11: a request to a configured route that checkRateLimit answers with
\* allowed = false gets the status 429 with Retry-After = windowMinutes x 60
\* of its route (in seconds) and X-RateLimit-Remaining 0, and is not passed on.
C11_Rejection ==
    (last.limited /\ ~last.allowed) =>
        /\ last.response.status = 429
        /\ ~last.response.passed
        /\ "Retry-After" \in DOMAIN last.response.headers
        /\ last.response.headers["Retry-After"] =
               ToString(RATE_LIMITS[last.path].windowMinutes * 60)
        /\ "X-RateLimit-Remaining" \in DOMAIN last.response.headers
        /\ last.response.headers["X-RateLimit-Remaining"] = "0"

\* the sixth generate-word request of a day is answered 429, Retry-After 86400
C11_Witness ==
    /\ last.limited /\ ~last.allowed
    /\ last.path = "/api/claude/generate-word"
    /\ last.nth = MaxRequestsOf(last.path) + 1
    /\ last.response.status = 429
    /\ last.response.headers["Retry-After"] = "86400"

\* C12: for every submitted guess of a game with a target, the state the
\* board shows for each tile (getLetterStatus) is the state checkGuess assigns
\* to that tile.
C12_BoardFollowsCheckGuess ==
    Len(targetWord) = WordLength =>
        \A n \in 1..Len(guesses) :
            \A i \in 1..WordLength :
                getLetterStatus(guesses[n], i - 1)
                    = checkGuess(guesses[n], targetWord).tiles[i].state

\* C18: the guess history never holds more than 6 entries; submitGuess adds
\* a guess only to a game that is played, and when the guess it adds is the
\* sixth entry and is not the target the game is lost.
C18_SixGuesses ==
    [][/\ Len(guesses') <= MaxGuesses
       /\ (isLoadingWord' = isLoadingWord /\ guesses' # guesses) =>
              /\ gameState = "playing"
              /\ Len(guesses') = Len(guesses) + 1
              /\ SubSeq(guesses', 1, Len(guesses)) = guesses
              /\ (Len(guesses') = MaxGuesses /\ guesses'[MaxGuesses] # targetWord)
                     => gameState' = "lost"]_vars

\* a game started with AUDIO as its first guess is lost with its sixth entry
C18_Witness ==
    /\ gameState = "lost"
    /\ Len(guesses) = MaxGuesses
    /\ guesses[1] = AUDIO
    /\ targetWord = ALARM
    /\ \A n \in 1..MaxGuesses : guesses[n] # targetWord

\* what a request of this client for this route would be answered now by
\* the limiter that never sweeps
PlainOutcome(pair) ==
    LET r == checkRateLimit(plainStore, pair[1], pair[2], now)
    IN  <<r.allowed, r.remaining>>

\* C13: a limiter whose store is swept after none, some or all requests and
\* one that is never swept, given the same requests at the same times, answer
\* every call of checkRateLimit alike, and would answer the next call alike.
C13_SweepIsTransparent ==
    /\ last.plain = <<last.allowed, last.remaining>>
    /\ \A pair \in traffic : Outcome(pair) = PlainOutcome(pair)

\* a sweep has deleted a record the other limiter still holds, and a later
\* request was rejected by both
C13_Witness ==
    /\ DOMAIN rateLimitStore # DOMAIN plainStore
    /\ last.limited /\ ~last.allowed
    /\ last.plain = <<FALSE, 0>>

C16_CoachingFlag ==
    ~("ENABLE_INTERACTIVE_COACHING" \in DOMAIN env
          /\ env["ENABLE_INTERACTIVE_COACHING"] = "true") =>
        /\ (served.path = "/api/claude/coaching" /\ served.passed) =>
               /\ served.kind = "disabled"
               /\ served.enabled = "false"
               /\ served.llm = 0
        /\ \A key \in DOMAIN llmCalls : key[2] # "/api/claude/coaching"

\* the flag is set to 'TRUE' and a second coaching request is answered disabled
C16_Witness ==
    /\ "ENABLE_INTERACTIVE_COACHING" \in DOMAIN env
    /\ env["ENABLE_INTERACTIVE_COACHING"] = "TRUE"
    /\ served.path = "/api/claude/coaching" /\ served.passed
    /\ served.kind = "disabled"
    /\ last.nth = 2

\* C15: every call of checkRateLimit, for a configured route or not, returns
\* a boolean allowed and an integer remaining that is not negative: within
\* 0..maxRequests-1 for a configured route, the sentinel 999 otherwise.
C15_ValidResult ==
    last.api =>
        /\ last.allowed \in BOOLEAN
        /\ last.remaining \in Nat
        /\ IF last.limited
           THEN last.remaining \in 0..(MaxRequestsOf(last.path) - 1)
           ELSE last.remaining = 999

\* a route without a limit is answered with the sentinel after the client
\* was rejected on a configured route in the same hour
C15_Witness ==
    /\ last.api /\ ~last.limited
    /\ last.remaining = 999
    /\ \E pair \in traffic :
          /\ HasConfig(pair[2])
          /\ CallsIn(pair[1], pair[2], WindowOf(pair[2], now)) > MaxRequestsOf(pair[2])

\* C17: every response of the middleware, the 429 of a rejected request
\* included, carries X-Frame-Options, X-Content-Type-Options, Referrer-Policy
\* and X-XSS-Protection.
C17_SecurityHeaders ==
    \A header \in DOMAIN SecurityHeaders :
        /\ header \in DOMAIN last.response.headers
        /\ last.response.headers[header] = SecurityHeaders[header]

\* C19: for every pair of words and every letter of the guess, the tiles of
\* that letter that checkGuess marks correct or present number exactly
\* min(occurrences in the guess, occurrences in the target); ADIEU against
\* AUDIO gives correct, present, present, absent, present.
C19_ReferenceScoring ==
    \A n \in 1..Len(history) :
        /\ \A letter \in LettersOf(history[n].word) :
              Marked(history[n], letter)
                  = Min(Occurrences(history[n].word, letter),
                        Occurrences(targetWord, letter))
        /\ (targetWord = AUDIO /\ history[n].word = ADIEU) =>
              [i \in 1..WordLength |-> history[n].tiles[i].state]
                  = <<"correct", "present", "present", "absent", "present">>

\* ADIEU was evaluated against AUDIO
C19_Witness ==
    /\ targetWord = AUDIO
    /\ Len(history) = 1
    /\ history[1].word = ADIEU
    /\ history[1].tiles[4] = [letter |-> "E", state |-> "absent"]
    /\ history[1].tiles[5] = [letter |-> "U", state |-> "present"]

\* the positions of a guess that bear the letter and are no exact match
NonExact(guess, letter) ==
    {i \in 1..Len(guess) : guess[i] = letter /\ guess[i] # targetWord[i]}

\* the occurrences of the letter in the target that no exact match claims
Unclaimed(guess, letter) ==
    Occurrences(targetWord, letter)
        - Cardinality({i \in 1..Len(guess) : guess[i] = letter /\ guess[i] = targetWord[i]})

\* C20: when a guess has more copies of a letter that are no exact match than
\* the target has occurrences of it left over by the exact matches, exactly
\* the leftmost of these copies, as many as are left over, are marked present
\* and the others absent.
C20_LeftToRight ==
    \A n \in 1..Len(history) :
        \A letter \in LettersOf(history[n].word) :
            LET copies == NonExact(history[n].word, letter)
                u == Unclaimed(history[n].word, letter)
            IN  u < Cardinality(copies) =>
                    \A i \in copies :
                        history[n].tiles[i].state =
                            IF Cardinality({j \in copies : j < i}) < u
                            THEN "present" ELSE "absent"

\* one occurrence is left over for three or more copies: the leftmost copy
\* is present and the rightmost absent
C20_Witness ==
    /\ Len(history) = 1
    /\ \E letter \in LettersOf(history[1].word) :
          LET copies == NonExact(history[1].word, letter)
          IN  /\ Unclaimed(history[1].word, letter) = 1
              /\ Cardinality(copies) >= 3
              /\ \E i \in copies : \A j \in copies : i <= j
                     /\ history[1].tiles[i].state = "present"
              /\ \E i \in copies : \A j \in copies : j <= i
                     /\ history[1].tiles[i].state = "absent"

\* C21: checkGuess returns the guess as word and one tile for each position
\* of the guess, tile i with the letter guess[i]; tile i is correct exactly
\* when guess[i] = target[i], and every tile state is correct, present or
\* absent.
C21_TileShape ==
    /\ Len(history) = Len(submitted)
    /\ \A n \in 1..Len(history) :
          LET guess == submitted[n]
              result == history[n]
          IN  /\ result.word = guess
              /\ DOMAIN result.tiles = 1..Len(guess)
              /\ \A i \in 1..Len(guess) :
                    /\ result.tiles[i].letter = guess[i]
                    /\ result.tiles[i].state = "correct" <=> guess[i] = targetWord[i]
                    /\ result.tiles[i].state \in {"correct", "present", "absent"}

\* a guess with an exact match whose letter the target holds once more, at
\* a place where the guess has another letter: the match stays correct
C21_Witness ==
    /\ Len(history) = 1
    /\ \E i, j \in 1..WordLength :
          /\ i # j
          /\ submitted[1][i] = targetWord[i]
          /\ targetWord[j] = submitted[1][i]
          /\ submitted[1][j] # targetWord[j]
          /\ history[1].tiles[i].state = "correct"

\* C22: a letter the keyboard shows as present is shown as present or correct
\* after every further guess, never as absent.
C22_PresentIsKept ==
    [][\A letter \in DOMAIN keyboardState :
          keyboardState[letter] = "present" =>
              /\ letter \in DOMAIN keyboardState'
              /\ keyboardState'[letter] \in {"present", "correct"}]_vars

\* a letter present and nowhere correct in the first guess has an absent
\* tile after its present tile in the second, and the keyboard still shows
\* it as present
C22_Witness ==
    /\ Len(history) = 2
    /\ \E letter \in LettersOf(history[2].word) :
          /\ \E i \in 1..WordLength : history[1].tiles[i] = [letter |-> letter, state |-> "present"]
          /\ \A n \in 1..2 : \A i \in 1..WordLength :
                history[n].tiles[i] # [letter |-> letter, state |-> "correct"]
          /\ \E i, j \in 1..WordLength :
                /\ i < j
                /\ history[2].tiles[i] = [letter |-> letter, state |-> "present"]
                /\ history[2].tiles[j] = [letter |-> letter, state |-> "absent"]
          /\ keyboardState[letter] = "present"

\* the states of the tiles that bear the letter, over all guesses
StatesOf(results, letter) ==
    {st \in {"correct", "present", "absent"} :
        \E n \in 1..Len(results) : \E i \in 1..WordLength :
            results[n].tiles[i] = [letter |-> letter, state |-> st]}

\* the state of highest priority in a set of states that is not empty
Best(states) ==
    IF "correct" \in states THEN "correct"
    ELSE IF "present" \in states THEN "present"
    ELSE "absent"

\* the orders in which n guesses can be given
Orders(n) == {f \in [1..n -> 1..n] : \A a, b \in 1..n : f[a] = f[b] => a = b}

\* C23: the keyboard has an entry exactly for the letters that occur in the
\* history, the entry of a letter is the state of highest priority (correct,
\* then present, then absent) among all tiles with that letter, and
\* getKeyboardState gives the same result for the guesses in any other order.
C23_BestState ==
    /\ DOMAIN keyboardState = UNION {LettersOf(history[n].word) : n \in 1..Len(history)}
    /\ \A letter \in DOMAIN keyboardState :
          keyboardState[letter] = Best(StatesOf(history, letter))
    /\ \A f \in Orders(Len(history)) :
          getKeyboardState([n \in 1..Len(history) |-> history[f[n]]]) = keyboardState

\* two different guesses: a letter absent in the first is correct in the
\* second, and the keyboard shows it as correct
C23_Witness ==
    /\ Len(history) = 2
    /\ history[1] # history[2]
    /\ \E letter \in DOMAIN keyboardState :
          /\ \E i \in 1..WordLength : history[1].tiles[i] = [letter |-> letter, state |-> "absent"]
          /\ \A i \in 1..WordLength : history[1].tiles[i] # [letter |-> letter, state |-> "correct"]
          /\ \E i \in 1..WordLength : history[2].tiles[i] = [letter |-> letter, state |-> "correct"]
          /\ keyboardState[letter] = "correct"

C25_SweepOnEveryRequest ==
    \A pair \in traffic :
        ENABLED (/\ Middleware(pair[1], pair[2], TRUE)
                 /\ \A k \in DOMAIN rateLimitStore' :
                       ~(now > rateLimitStore'[k].resetTime))

\* C26: a request of a client to a configured route that follows a rejected
\* request of that client to the route, with no request of the client to the
\* route in between and at least the Retry-After of the rejection
\* (windowMinutes * 60 seconds) later, is allowed.
C26_RetryAfterSuffices ==
    last.waited => (last.limited /\ last.allowed)

\* a request is rejected and the next one arrives exactly Retry-After later:
\* it is the first call of its window and is allowed
C26_Witness ==
    /\ last.waited
    /\ last.allowed
    /\ last.nth = 1
    /\ \E t \in instants :
          /\ now = t + WindowMs(last.path)
          /\ CallsIn(last.ip, last.path, WindowOf(last.path, t)) = MaxRequestsOf(last.path) + 1

C28_WonIffTargetGuessed ==
    gameState = "won" <=> \E n \in 1..Len(guesses) : guesses[n] = targetWord

\* C29: the target a new game gets from getNewWord is not a word that
\* usedWords held when the game was started.
C29_FreshTarget ==
    [][(isLoadingWord /\ ~isLoadingWord') => targetWord' \notin usedWords]_vars

\* the sum of the entries of guessDistribution
Total(distribution) ==
    distribution[1] + distribution[2] + distribution[3] + distribution[4]
        + distribution[5] + distribution[6]

\* C30: from zeroed statistics, gamesWon <= gamesPlayed, currentStreak <=
\* maxStreak and the entries of guessDistribution add up to gamesWon; a game
\* that ends, won or lost, raises gamesPlayed by one, and no other step
\* changes the statistics except their reset (starting a new game in the
\* middle of a game changes nothing).
C30_Statistics ==
    [][/\ stats'.gamesWon <= stats'.gamesPlayed
       /\ stats'.currentStreak <= stats'.maxStreak
       /\ Total(stats'.guessDistribution) = stats'.gamesWon
       /\ IF gameState = "playing" /\ gameState' \in {"won", "lost"}
          THEN stats'.gamesPlayed = stats.gamesPlayed + 1
          ELSE \/ stats' = stats
               \/ /\ stats' = ZeroStats
                  /\ <<targetWord, guesses, gameState, isLoadingWord, usedWords>>'
                         = <<targetWord, guesses, gameState, isLoadingWord, usedWords>>]_vars

\* a game won with its second guess, then a game abandoned, then a game lost:
\* the streak is over and the longest streak is kept
C30_Witness ==
    /\ gameState = "lost"
    /\ stats = [gamesPlayed |-> 2, gamesWon |-> 1, currentStreak |-> 0, maxStreak |-> 1,
                guessDistribution |-> <<0, 1, 0, 0, 0, 0>>]
    /\ Cardinality(usedWords) = 2

====
